---- MODULE Spec2Model ----
(***************************************************************************)
(* A state-machine model of three parts of the repository:                 *)
(*                                                                         *)
(*  1. the CUPTI based GPU tracer (xla/backends/profiler/gpu/              *)
(*     cupti_tracer.{h,cc}): CuptiTracer::Enable / Disable, the per-thread *)
(*     callback buffers (CallbackAnnotationsAndEvents and its collection), *)
(*     the driver API hook and the activity buffer handling;               *)
(*  2. the MHLO to HLO exporter's driver (xla/translate/mhlo_to_hlo/       *)
(*     mlir_hlo_to_hlo.cc): ConvertMlirHloToHlo, ConvertToHloModule::Run,  *)
(*     RunOnFunction and ConsumeMainProto, and Lower for a return op;      *)
(*  3. IndexFlatMapDatasetOp::MakeDataset (tensorflow/core/kernels/data/   *)
(*     experimental/index_flat_map_dataset_op.cc) and the datasets it      *)
(*     makes.                                                              *)
(*                                                                         *)
(* Threads of the tracer model: one control thread that runs Enable() and  *)
(* Disable() statement by statement (pc), NumThreads application threads   *)
(* that receive CUPTI driver API callbacks (HandleCallback), CUPTI's own   *)
(* activity callbacks (RequestActivityBuffer / ProcessActivityBuffer) and  *)
(* a thread that polls IsAvailable().  Results of CUPTI calls are inputs:  *)
(* every RETURN_IF_CUPTI_ERROR is a choice between success and the early   *)
(* return.                                                                 *)
(***************************************************************************)
EXTENDS Integers, Sequences, FiniteSets, TLC

(* ------------------------------ bounds -------------------------------- *)
NumThreads == 2
MaxSessions == 2
MaxCalls == 2
MaxContexts == 1
MaxBuffers == 2
MaxActivityBuffers == 2
MaxActivityApiEvents == 2
MaxAnnotationStrings == 1
NumGpus == 1
MaxFuncs == 2
MaxReturns == 2
MaxValues == 2
MaxDatasets == 3

(* -------------------------- program constants ------------------------- *)
kMaxCuptiActivityEventSize == 64

Threads == 1..NumThreads
Contexts == 1..MaxContexts
NullContext == 0
Null == 0
\* An empty std::optional / a null pointer to an object.
NullOption == [has_value |-> FALSE]
NullCollector == [null |-> TRUE]
NullHook == [null |-> TRUE]
NoModule == [null |-> TRUE]
\* A default-constructed xla::XlaOp (not valid).
InvalidOp == [kind |-> "invalid"]
\* An empty std::optional<xla::OpSharding>.
NoSharding == [type |-> "none"]
\* The input datasets MakeDataset is given, each with the status its
\* RandomIndexingCompatible() returns.  Every input starts with the one
\* reference of its creator.
InputDatasets ==
  {[id |-> 1, random_indexing_compatible |-> "OK"],
   [id |-> 2, random_indexing_compatible |-> "OK"],
   [id |-> 3, random_indexing_compatible |-> "FAILED_PRECONDITION"],
   [id |-> 4, random_indexing_compatible |-> "UNIMPLEMENTED"]}
InputIds == {input.id : input \in InputDatasets}
\* An OpKernelContext MakeDataset has not been called with.
NoContext == [called |-> FALSE, input |-> 0, status |-> [code |-> "OK"],
              output |-> 0, created |-> 0]
NoInst == [operands |-> <<>>, is_entry_function |-> FALSE,
           ret_shardings |-> <<>>, value_map |-> <<>>, reshape |-> "same"]

\* CuptiTracerOptions values offered to Enable() (cupti_tracer.h:35-51).
ActivityChoices == {<<>>, <<"KERNEL">>}
OptionChoices ==
  [required_callback_api_events : BOOLEAN,
   activities_selected : ActivityChoices,
   sync_devices_before_stop : BOOLEAN]

\* CuptiCollectorOptions::max_callback_api_events offered (0: no limit).
MaxCallbackChoices == {0, 1}

VARIABLES
  pc,                         \* position of the thread running Enable/Disable
  session,                    \* number of Enable() calls so far
  option_,                    \* std::optional<CuptiTracerOptions>
  collector_,                 \* CuptiTraceCollector* (Null or its options)
  api_tracing_enabled_,
  activity_tracing_enabled_,
  cupti_driver_api_hook_,     \* Null or [contexts_]
  s_callback_api_event_count,
  s_max_callback_api_events,
  s_max_annotation_strings,
  tl,                         \* thread -> its thread_local buffer (Null: none)
  tpc,                        \* thread -> "idle" | "adding"
  pending,                    \* thread -> the callback it is in
  buffers,                    \* buffer id -> CallbackAnnotationsAndEvents
  nextBuf,                    \* buffer objects created so far
  active_set_,
  deactived_list_,
  collected_annotation_and_events_,
  merged_annotation_map_,
  dropped_callback_event_count_,
  nextCorrelationId,          \* CUPTI's correlation id of the next API call
  buffer_pool_,               \* tsl::profiler::BufferPool: free buffers
  cuptiHeld,                  \* activity buffers CUPTI holds
  cuptiRegistered,            \* ActivityRegisterCallbacks has succeeded
  activity_buffers_,
  estimated_num_activity_events_,
  subscribed,                 \* CUPTI side: a subscriber is installed
  log,                        \* calls made on the collector of this session
  cuptiCalls,                 \* CUPTI calls of this session, by name
  synced,                     \* contexts cuCtxSynchronize'd by Disable
  ctxUsed,                    \* live contexts with a driver call this session
  handedOut,                  \* buffers CollectAll moved out of the collection
  returned,                   \* event -> times CollectAll has returned it
  cachedTotal,                \* activity buffers cached so far
  converted,                  \* cache numbers of the buffers converted
  lastProcessed,              \* the last ProcessActivityBuffer call
  activityWasOn,              \* activity_tracing_enabled_ when Disable began
  polled,                     \* the last IsAvailable() poll
  module_,                    \* the mlir::ModuleOp ConvertMlirHloToHlo is given
  hpc,                        \* position inside ConvertMlirHloToHlo
  run_result,                 \* what ConvertToHloModule::Run returned
  run_index,                  \* Run's position in module_.getOps<FuncOp>()
  lowered_computation_,       \* functions with a lowered XlaComputation
  status,                     \* the xla::Status ConvertMlirHloToHlo returns
  hlo_module,                 \* the proto ConsumeMainProto returned
  check_failed,               \* a CHECK has failed (the process aborts)
  converter,                  \* whether a ConvertToHloModule is constructed
  use_tuple_args_,
  return_tuple_,
  inst,                       \* the return op Lower was last called with
  return_value,               \* *return_value of that call
  lower_result,               \* the LogicalResult of that call
  refs,                       \* the reference count of each input dataset
  datasets,                   \* the IndexFlatMap datasets created
  captured_functions,         \* the CapturedFunction objects alive
  op_ctx                      \* the OpKernelContext of the last MakeDataset

tracerVars ==
  <<pc, session, option_, collector_, api_tracing_enabled_,
    activity_tracing_enabled_, cupti_driver_api_hook_,
    s_callback_api_event_count, s_max_callback_api_events,
    s_max_annotation_strings, collected_annotation_and_events_,
    merged_annotation_map_, dropped_callback_event_count_, subscribed, log,
    cuptiCalls, synced, activityWasOn, polled>>
threadVars == <<tl, tpc, pending, nextCorrelationId, ctxUsed>>
collectionVars == <<buffers, nextBuf, active_set_, deactived_list_,
                    handedOut, returned>>
activityVars == <<buffer_pool_, cuptiHeld, cuptiRegistered, activity_buffers_,
                  estimated_num_activity_events_, cachedTotal, converted,
                  lastProcessed>>

hloVars == <<module_, hpc, run_result, run_index, lowered_computation_,
             status, hlo_module, check_failed>>
lowerVars == <<converter, use_tuple_args_, return_tuple_, inst, return_value,
               lower_result>>
datasetVars == <<refs, datasets, captured_functions, op_ctx>>

NoPending == [cbid |-> "none", context |-> NullContext, correlation_id |-> 0,
              annotation |-> ""]
NoPoll == [live |-> FALSE, available |-> FALSE, done |-> FALSE]
NoProcessed == [buffer |-> Null, size |-> 0, disabled |-> FALSE,
                cached |-> FALSE, reclaimed |-> FALSE]

(* ------------------------------ helpers ------------------------------- *)
Range(s) == {s[i] : i \in 1..Len(s)}

\* Every order in which the elements of S can be iterated.
Orders(S) ==
  {s \in [1..Cardinality(S) -> S] : \A i, j \in 1..Cardinality(S) :
                                       i # j => s[i] # s[j]}

RECURSIVE Flatten(_)
Flatten(ss) == IF ss = <<>> THEN <<>> ELSE Head(ss) \o Flatten(Tail(ss))

RECURSIVE SumSeq(_)
SumSeq(s) == IF s = <<>> THEN 0 ELSE Head(s) + SumSeq(Tail(s))

\* A default-constructed / cleared CallbackAnnotationsAndEvents.
EmptyBuffer == [events |-> <<>>, annotations |-> {}, num_dropped_events |-> 0]

(* --------------- CallbackAnnotationsAndEvents (per thread) ------------- *)
\* The guard of Add (cupti_tracer.cc:1184-1185): two reads of the counters.
AddAdmits ==
  \/ s_max_callback_api_events = 0
  \/ s_callback_api_event_count < s_max_callback_api_events

\* bool too_many_annotations (cupti_tracer.cc:1191-1193).
TooManyAnnotations(buf) ==
  /\ s_max_annotation_strings > 0
  /\ Cardinality(buf.annotations) >= s_max_annotation_strings

\* event_annotation_buffer.Emplace(...) of Add: the entry appended, with an
\* empty event.  filled is set later by AddDriverApiCallbackEvent through
\* LastCallbackEvent(); session records the session the entry was made in.
Emplace(buf, correlation_id, annotation) ==
  LET keep == ~(TooManyAnnotations(buf) \/ annotation = "")
  IN [buf EXCEPT
        !.events = Append(@, [correlation_id |-> correlation_id,
                              annotation |-> IF keep THEN annotation ELSE "",
                              filled |-> FALSE,
                              session |-> session]),
        !.annotations = IF keep THEN @ \cup {annotation} ELSE @]

\* The else branch of Add: the event is dropped.
DropEvent(buf) == [buf EXCEPT !.num_dropped_events = @ + 1]

\* AddDriverApiCallbackEvent: fills the event LastCallbackEvent() points to.
FillLastEvent(buf) ==
  IF buf.events = <<>> THEN buf
  ELSE [buf EXCEPT !.events[Len(buf.events)].filled = TRUE]

(* ---------------- CallbackAnnotationsAndEventsCollection --------------- *)
\* Deactivate without the emplace_back of line 1259.
DeactivateLoses(data) == deactived_list_

\* CreateNew: a fresh buffer object joins the active set.
CreateNewActive(data) == active_set_ \cup {data}

\* Deactivate(data): under the mutex, only a buffer of the active set moves.
DeactivateMoves(data) == data # Null /\ data \in active_set_
DeactivateActive(data) ==
  IF DeactivateMoves(data) THEN active_set_ \ {data} ELSE active_set_
DeactivateList(data) ==
  IF DeactivateMoves(data) THEN Append(deactived_list_, data)
  ELSE deactived_list_

\* CollectAll(use_active, use_deactived): the list returned, for one iteration
\* order of the hash set.  An active buffer's content is moved into a new
\* object; a deactivated buffer is moved out of the list itself.
CollectAllResult(order, use_active, use_deactived) ==
  (IF use_active THEN [i \in 1..Len(order) |-> buffers[order[i]]] ELSE <<>>)
  \o (IF use_deactived
      THEN [i \in 1..Len(deactived_list_) |-> buffers[deactived_list_[i]]]
      ELSE <<>>)

\* The buffers after CollectAll: the move constructor leaves an active buffer
\* empty (cupti_tracer.cc:1172-1178, 1125-1132).
CollectAllBuffers(use_active, use_deactived) ==
  [b \in DOMAIN buffers |->
     IF \/ use_active /\ b \in active_set_
        \/ use_deactived /\ b \in Range(deactived_list_)
     THEN EmptyBuffer ELSE buffers[b]]

CollectAllDeactivated(use_deactived) ==
  IF use_deactived THEN <<>> ELSE deactived_list_

EventsOf(result) == Flatten([i \in 1..Len(result) |-> result[i].events])

\* CollectAll as a step on the collection's state.
CollectAll(result, use_active, use_deactived) ==
  /\ buffers' = CollectAllBuffers(use_active, use_deactived)
  /\ deactived_list_' = CollectAllDeactivated(use_deactived)
  /\ handedOut' = handedOut \cup
       (Range(deactived_list_) \ Range(CollectAllDeactivated(use_deactived)))
  /\ returned' =
       [e \in DOMAIN returned |->
          returned[e] + Cardinality({i \in 1..Len(EventsOf(result)) :
                                       EventsOf(result)[i].correlation_id = e})]
  /\ UNCHANGED <<active_set_, nextBuf>>

\* CollectAll's precondition (cupti_tracer.cc:1263-1266): no thread is
\* updating its buffer while the buffers are moved out.
NoThreadAdding == \A t \in Threads : tpc[t] = "idle"

(* ----------------------------- CuptiTracer ---------------------------- *)
IsAvailable ==
  NumGpus > 0 /\ ~activity_tracing_enabled_ /\ ~api_tracing_enabled_

\* The merged annotation map Gather builds from the collected buffers.
MergedAnnotations(collected) ==
  {<<e.correlation_id, e.annotation>> :
     e \in {x \in Range(EventsOf(collected)) : x.annotation # ""}}

DroppedOf(collected) ==
  SumSeq([i \in 1..Len(collected) |-> collected[i].num_dropped_events])

\* ClearAllAnnotatedEvents: what it leaves in the tracer's own members.
ClearedCollected == <<>>
ClearedMergedMap == {}
ClearedDroppedCount == 0

\* PrepareOptionSettings without line 1965: the count of the last session.
StaleEventCount == s_callback_api_event_count

\* PrepareOptionSettings: the value the global event count restarts from.
PreparedEventCount == 0

Init ==
  /\ pc = "idle"
  /\ session = 0
  /\ option_ = NullOption
  /\ collector_ = NullCollector
  /\ api_tracing_enabled_ = FALSE
  /\ activity_tracing_enabled_ = FALSE
  /\ cupti_driver_api_hook_ = NullHook
  /\ s_callback_api_event_count = 0
  /\ s_max_callback_api_events = 2 * 1024 * 1024
  /\ s_max_annotation_strings = 1024 * 1024
  /\ tl = [t \in Threads |-> Null]
  /\ tpc = [t \in Threads |-> "idle"]
  /\ pending = [t \in Threads |-> NoPending]
  /\ buffers = [b \in 1..MaxBuffers |-> EmptyBuffer]
  /\ nextBuf = 1
  /\ active_set_ = {}
  /\ deactived_list_ = <<>>
  /\ collected_annotation_and_events_ = <<>>
  /\ merged_annotation_map_ = {}
  /\ dropped_callback_event_count_ = 0
  /\ nextCorrelationId = 1
  /\ buffer_pool_ = {}
  /\ cuptiHeld = {}
  /\ cuptiRegistered = FALSE
  /\ activity_buffers_ = <<>>
  /\ estimated_num_activity_events_ = 0
  /\ subscribed = FALSE
  /\ log = <<>>
  /\ cuptiCalls = {}
  /\ synced = [c \in Contexts |-> 0]
  /\ ctxUsed = {}
  /\ handedOut = {}
  /\ returned = [e \in 1..MaxCalls |-> 0]
  /\ cachedTotal = 0
  /\ converted = <<>>
  /\ lastProcessed = NoProcessed
  /\ activityWasOn = FALSE
  /\ polled = NoPoll
  /\ module_ = NoModule
  /\ hpc = "idle"
  /\ run_result = "none"
  /\ run_index = 0
  /\ lowered_computation_ = {}
  /\ status = "none"
  /\ hlo_module = "none"
  /\ check_failed = FALSE
  /\ converter = "none"
  /\ use_tuple_args_ = FALSE
  /\ return_tuple_ = FALSE
  /\ inst = NoInst
  /\ return_value = InvalidOp
  /\ lower_result = "none"
  /\ refs = [i \in InputIds |-> 1]
  /\ datasets = <<>>
  /\ captured_functions = 0
  /\ op_ctx = NoContext

\* Enable(option, collector), lines 1503-1507: the members are set and the
\* driver API hook is created.
Enable(option, max_cb) ==
  /\ pc = "idle"
  /\ session < MaxSessions
  /\ pc' = "EnableApiTracing"
  /\ session' = session + 1
  /\ option_' = option
  /\ collector_' = [id |-> session + 1,
                    max_callback_api_events |-> max_cb,
                    max_activity_api_events |-> MaxActivityApiEvents,
                    max_annotation_strings |-> MaxAnnotationStrings]
  /\ cupti_driver_api_hook_' = [option_ |-> option, contexts_ |-> {}]
  /\ log' = <<>>
  /\ cuptiCalls' = {}
  /\ synced' = [c \in Contexts |-> 0]
  /\ ctxUsed' = {}
  /\ activityWasOn' = FALSE
  /\ polled' = NoPoll
  /\ UNCHANGED <<api_tracing_enabled_, activity_tracing_enabled_,
                 s_callback_api_event_count, s_max_callback_api_events,
                 s_max_annotation_strings, collected_annotation_and_events_,
                 merged_annotation_map_, dropped_callback_event_count_,
                 subscribed, tl, tpc, pending, nextCorrelationId>>
  /\ UNCHANGED collectionVars
  /\ UNCHANGED activityVars
  /\ UNCHANGED hloVars
  /\ UNCHANGED <<lowerVars, datasetVars>>

\* EnableApiTracing up to the Subscribe call: ClearAllAnnotatedEvents and
\* PrepareOptionSettings (skipped, with the rest, when tracing is already on).
EnableApiTracing_Prepare ==
  /\ pc = "EnableApiTracing"
  /\ IF api_tracing_enabled_
     THEN /\ pc' = "EnableActivityTracing"
          /\ UNCHANGED <<collected_annotation_and_events_,
                         merged_annotation_map_,
                         dropped_callback_event_count_,
                         s_callback_api_event_count,
                         s_max_callback_api_events, s_max_annotation_strings>>
          /\ UNCHANGED collectionVars
     ELSE /\ NoThreadAdding
          /\ pc' = "Subscribe"
          /\ collected_annotation_and_events_' = ClearedCollected
          /\ merged_annotation_map_' = ClearedMergedMap
          /\ \E order \in Orders(active_set_) :
               CollectAll(CollectAllResult(order, TRUE, TRUE), TRUE, TRUE)
          /\ dropped_callback_event_count_' = ClearedDroppedCount
          /\ s_max_annotation_strings' = collector_.max_annotation_strings
          /\ s_max_callback_api_events' = collector_.max_callback_api_events
          /\ s_callback_api_event_count' = PreparedEventCount
  /\ UNCHANGED <<session, option_, collector_, api_tracing_enabled_,
                 activity_tracing_enabled_, cupti_driver_api_hook_,
                 subscribed, log, cuptiCalls, synced, activityWasOn,
                 polled>>
  /\ UNCHANGED threadVars
  /\ UNCHANGED activityVars
  /\ UNCHANGED hloVars
  /\ UNCHANGED <<lowerVars, datasetVars>>

\* The rest of EnableApiTracing: Subscribe, the flag, EnableCallback /
\* EnableDomain.  A failed Subscribe or a failed enable makes Enable() return
\* before EnableActivityTracing (cupti_tracer.cc:1511).
EnableApiTracing_Subscribe(result) ==
  /\ pc = "Subscribe"
  /\ cuptiCalls' = cuptiCalls \cup
       {IF result = "subscribe_error" THEN "Subscribe failed" ELSE "Subscribe"}
  /\ IF result = "subscribe_error"
     THEN /\ pc' = "running"
          /\ UNCHANGED <<subscribed, api_tracing_enabled_>>
     ELSE /\ subscribed' = TRUE
          /\ api_tracing_enabled_' = TRUE
          /\ pc' = IF result = "ok" THEN "EnableActivityTracing" ELSE "running"
  /\ UNCHANGED <<session, option_, collector_, activity_tracing_enabled_,
                 cupti_driver_api_hook_, s_callback_api_event_count,
                 s_max_callback_api_events, s_max_annotation_strings,
                 collected_annotation_and_events_, merged_annotation_map_,
                 dropped_callback_event_count_, log, synced,
                 activityWasOn, polled>>
  /\ UNCHANGED threadVars
  /\ UNCHANGED collectionVars
  /\ UNCHANGED activityVars
  /\ UNCHANGED hloVars
  /\ UNCHANGED <<lowerVars, datasetVars>>

\* The Activity API calls EnableActivityTracing makes for one outcome.
EnableActivityCalls(result) ==
  IF option_.activities_selected = <<>> THEN {}
  ELSE IF result = "register_error" THEN {"ActivityRegisterCallbacks"}
  ELSE {"ActivityRegisterCallbacks", "ActivityEnable"}

EnableActivityTracing(result) ==
  /\ pc = "EnableActivityTracing"
  /\ result # "ok" => option_.activities_selected # <<>>
  /\ pc' = "running"
  /\ cuptiCalls' = cuptiCalls \cup EnableActivityCalls(result)
  /\ cuptiRegistered' =
       (cuptiRegistered \/
          (option_.activities_selected # <<>> /\ result # "register_error"))
  /\ activity_tracing_enabled_' =
       IF result = "ok" THEN TRUE ELSE activity_tracing_enabled_
  /\ UNCHANGED <<session, option_, collector_, api_tracing_enabled_,
                 cupti_driver_api_hook_, s_callback_api_event_count,
                 s_max_callback_api_events, s_max_annotation_strings,
                 collected_annotation_and_events_, merged_annotation_map_,
                 dropped_callback_event_count_, subscribed, log, synced,
                 activityWasOn, polled>>
  /\ UNCHANGED threadVars
  /\ UNCHANGED collectionVars
  /\ UNCHANGED <<buffer_pool_, cuptiHeld, activity_buffers_,
                 estimated_num_activity_events_, cachedTotal, converted,
                 lastProcessed>>
  /\ UNCHANGED hloVars
  /\ UNCHANGED <<lowerVars, datasetVars>>

\* DisableApiTracing: the flag is cleared before the CUPTI calls, so an error
\* return (before Unsubscribe) leaves only the subscriber installed.
DisableApiTracing(result) ==
  /\ pc = "running"
  /\ result # "ok" => api_tracing_enabled_
  /\ pc' = "DisableActivityTracing"
  /\ api_tracing_enabled_' = FALSE
  /\ subscribed' = IF api_tracing_enabled_ /\ result = "ok" THEN FALSE
                   ELSE subscribed
  /\ UNCHANGED <<session, option_, collector_, activity_tracing_enabled_,
                 cupti_driver_api_hook_, s_callback_api_event_count,
                 s_max_callback_api_events, s_max_annotation_strings,
                 collected_annotation_and_events_, merged_annotation_map_,
                 dropped_callback_event_count_, log, cuptiCalls, synced,
                 activityWasOn, polled>>
  /\ UNCHANGED threadVars
  /\ UNCHANGED collectionVars
  /\ UNCHANGED activityVars
  /\ UNCHANGED hloVars
  /\ UNCHANGED <<lowerVars, datasetVars>>

\* The Activity API calls DisableActivityTracing makes for one outcome.
DisableActivityCalls(result) ==
  IF ~activity_tracing_enabled_ THEN {}
  ELSE (IF option_.activities_selected # <<>> THEN {"ActivityDisable"} ELSE {})
       \cup (IF result # "disable_error" THEN {"ActivityFlushAll"} ELSE {})

\* activity_tracing_enabled_ after DisableActivityTracing: line 1633 is reached
\* only when no RETURN_IF_CUPTI_ERROR has returned before it.
ActivityFlagAfterDisable(result) ==
  IF activity_tracing_enabled_ THEN result # "ok" ELSE FALSE

DisableActivityTracing(result) ==
  /\ pc = "DisableActivityTracing"
  /\ result # "ok" => activity_tracing_enabled_
  /\ result = "disable_error" => option_.activities_selected # <<>>
  /\ pc' = "SyncAndFlush"
  /\ activityWasOn' = activity_tracing_enabled_
  /\ cuptiCalls' = cuptiCalls \cup DisableActivityCalls(result)
  /\ option_' = IF activity_tracing_enabled_ /\ result # "disable_error"
                THEN [option_ EXCEPT !.activities_selected = <<>>]
                ELSE option_
  /\ activity_tracing_enabled_' = ActivityFlagAfterDisable(result)
  /\ UNCHANGED <<session, collector_, api_tracing_enabled_,
                 cupti_driver_api_hook_, s_callback_api_event_count,
                 s_max_callback_api_events, s_max_annotation_strings,
                 collected_annotation_and_events_, merged_annotation_map_,
                 dropped_callback_event_count_, subscribed, log, synced,
                 polled>>
  /\ UNCHANGED threadVars
  /\ UNCHANGED collectionVars
  /\ UNCHANGED activityVars
  /\ UNCHANGED hloVars
  /\ UNCHANGED <<lowerVars, datasetVars>>

\* CuptiDriverApiHookWithActivityApi::SyncAndFlush: the contexts it calls
\* cuCtxSynchronize on.
ContextsToSync(hook) ==
  IF hook.option_.sync_devices_before_stop THEN hook.contexts_ ELSE {}

\* Disable(), lines 1520-1522: CleanUp() and Finalize() only call into the
\* CUPTI interface; SyncAndFlush synchronizes the tracked contexts.
SyncAndFlush ==
  /\ pc = "SyncAndFlush"
  /\ pc' = "Gather"
  /\ synced' = [c \in Contexts |->
                  IF c \in ContextsToSync(cupti_driver_api_hook_)
                  THEN synced[c] + 1 ELSE synced[c]]
  /\ UNCHANGED <<session, option_, collector_, api_tracing_enabled_,
                 activity_tracing_enabled_, cupti_driver_api_hook_,
                 s_callback_api_event_count, s_max_callback_api_events,
                 s_max_annotation_strings, collected_annotation_and_events_,
                 merged_annotation_map_, dropped_callback_event_count_,
                 subscribed, log, cuptiCalls, activityWasOn, polled>>
  /\ UNCHANGED threadVars
  /\ UNCHANGED collectionVars
  /\ UNCHANGED activityVars
  /\ UNCHANGED hloVars
  /\ UNCHANGED <<lowerVars, datasetVars>>

LogEntry(op, arg) == [op |-> op, arg |-> arg]

\* GatherAllCallbackAnnotationsAndEvents: CollectAll, the merged map, and
\* collector_->SetAnnotationMap(std::move(merged_annotation_map_)).
GatherAllCallbackAnnotationsAndEvents ==
  /\ pc = "Gather"
  /\ NoThreadAdding
  /\ pc' = "FinalizeApiCallbackBuffers"
  /\ \E order \in Orders(active_set_) :
       LET result == CollectAllResult(order, TRUE, TRUE)
       IN /\ CollectAll(result, TRUE, TRUE)
          /\ collected_annotation_and_events_' = result
          /\ dropped_callback_event_count_' = DroppedOf(result)
          /\ log' = Append(log, LogEntry("SetAnnotationMap",
                                         MergedAnnotations(result)))
  /\ merged_annotation_map_' = {}
  /\ UNCHANGED <<session, option_, collector_, api_tracing_enabled_,
                 activity_tracing_enabled_, cupti_driver_api_hook_,
                 s_callback_api_event_count, s_max_callback_api_events,
                 s_max_annotation_strings, subscribed, cuptiCalls, synced,
                 activityWasOn, polled>>
  /\ UNCHANGED threadVars
  /\ UNCHANGED activityVars
  /\ UNCHANGED hloVars
  /\ UNCHANGED <<lowerVars, datasetVars>>

\* FinalizeApiCallbackBuffers: collector_->AddEvent for every collected event,
\* buffer by buffer, in the order of the entries.
CallbackEventCalls(collected) ==
  [i \in 1..Len(EventsOf(collected)) |->
     LogEntry("AddEvent", EventsOf(collected)[i])]

FinalizeApiCallbackBuffers ==
  /\ pc = "FinalizeApiCallbackBuffers"
  /\ pc' = "FinalizeActivityBuffers"
  /\ log' = log \o CallbackEventCalls(collected_annotation_and_events_)
  /\ UNCHANGED <<session, option_, collector_, api_tracing_enabled_,
                 activity_tracing_enabled_, cupti_driver_api_hook_,
                 s_callback_api_event_count, s_max_callback_api_events,
                 s_max_annotation_strings, collected_annotation_and_events_,
                 merged_annotation_map_, dropped_callback_event_count_,
                 subscribed, cuptiCalls, synced, activityWasOn, polled>>
  /\ UNCHANGED threadVars
  /\ UNCHANGED collectionVars
  /\ UNCHANGED activityVars
  /\ UNCHANGED hloVars
  /\ UNCHANGED <<lowerVars, datasetVars>>

\* One round of FinalizeActivityBuffers' loop: under the mutex the front
\* buffer is popped, then it is converted (ConvertActivityBuffer) and freed;
\* the loop ends when the list is found empty.
NextToConvert == Head(activity_buffers_)
AfterPop == Tail(activity_buffers_)

FinalizeActivityBuffers ==
  /\ pc = "FinalizeActivityBuffers"
  /\ IF activity_buffers_ = <<>>
     THEN /\ pc' = "Flush"
          /\ UNCHANGED <<activity_buffers_, converted, log>>
     ELSE /\ pc' = pc
          /\ activity_buffers_' = AfterPop
          /\ converted' = Append(converted, NextToConvert.n)
          /\ log' = Append(log, LogEntry("ConvertActivityBuffer",
                                         NextToConvert.n))
  /\ UNCHANGED <<session, option_, collector_, api_tracing_enabled_,
                 activity_tracing_enabled_, cupti_driver_api_hook_,
                 s_callback_api_event_count, s_max_callback_api_events,
                 s_max_annotation_strings, collected_annotation_and_events_,
                 merged_annotation_map_, dropped_callback_event_count_,
                 subscribed, cuptiCalls, synced, activityWasOn, polled>>
  /\ UNCHANGED threadVars
  /\ UNCHANGED collectionVars
  /\ UNCHANGED <<buffer_pool_, cuptiHeld, cuptiRegistered,
                 estimated_num_activity_events_, cachedTotal, lastProcessed>>
  /\ UNCHANGED hloVars
  /\ UNCHANGED <<lowerVars, datasetVars>>

\* Disable(), lines 1530-1534: Flush, then the members are reset.
FlushAndReset ==
  /\ pc = "Flush"
  /\ pc' = "idle"
  /\ log' = Append(log, LogEntry("Flush", 0))
  /\ collector_' = NullCollector
  /\ option_' = NullOption
  /\ cupti_driver_api_hook_' = NullHook
  /\ UNCHANGED <<session, api_tracing_enabled_, activity_tracing_enabled_,
                 s_callback_api_event_count, s_max_callback_api_events,
                 s_max_annotation_strings, collected_annotation_and_events_,
                 merged_annotation_map_, dropped_callback_event_count_,
                 subscribed, cuptiCalls, synced, activityWasOn, polled>>
  /\ UNCHANGED threadVars
  /\ UNCHANGED collectionVars
  /\ UNCHANGED activityVars
  /\ UNCHANGED hloVars
  /\ UNCHANGED <<lowerVars, datasetVars>>

(* ------------------------ application threads ------------------------- *)
\* The thread_local CallbackAnnotationsEventsWeakPtr of a thread is
\* constructed: CreateNew() (cupti_tracer.cc:1315-1317).
ThreadLocalInit(t) ==
  /\ tl[t] = Null
  /\ \A u \in Threads : u < t => tl[u] # Null   \* a new thread is the lowest free t
  /\ nextBuf <= MaxBuffers
  /\ tl' = [tl EXCEPT ![t] = nextBuf]
  /\ active_set_' = CreateNewActive(nextBuf)
  /\ nextBuf' = nextBuf + 1
  /\ UNCHANGED <<buffers, deactived_list_, handedOut, returned>>
  /\ UNCHANGED <<tpc, pending, nextCorrelationId, ctxUsed>>
  /\ UNCHANGED tracerVars
  /\ UNCHANGED activityVars
  /\ UNCHANGED hloVars
  /\ UNCHANGED <<lowerVars, datasetVars>>

\* The thread exits: ~CallbackAnnotationsEventsWeakPtr calls Deactivate(ptr_).
ThreadExit(t) ==
  /\ tl[t] # Null
  /\ tpc[t] = "idle"
  /\ tl' = [tl EXCEPT ![t] = Null]
  /\ active_set_' = DeactivateActive(tl[t])
  /\ deactived_list_' = DeactivateList(tl[t])
  /\ UNCHANGED <<buffers, nextBuf, handedOut, returned>>
  /\ UNCHANGED <<tpc, pending, nextCorrelationId, ctxUsed>>
  /\ UNCHANGED tracerVars
  /\ UNCHANGED activityVars
  /\ UNCHANGED hloVars
  /\ UNCHANGED <<lowerVars, datasetVars>>

IsCtxDestroy(cbid) == cbid \in {"cuCtxDestroy", "cuCtxDestroy_v2"}

\* CuptiDriverApiHookWithActivityApi::TrackContext.
TrackContext(hook, cbid, ctx) ==
  IF ~hook.option_.sync_devices_before_stop THEN hook.contexts_
  ELSE IF ctx = NullContext THEN hook.contexts_
  ELSE IF IsCtxDestroy(cbid) THEN hook.contexts_ \ {ctx}
  ELSE hook.contexts_ \cup {ctx}

\* OnDriverApiExit: the hook's contexts_ after it.
ContextsAfterExit(hook, cbid, ctx) ==
  IF ~hook.option_.required_callback_api_events THEN hook.contexts_
  ELSE TrackContext(hook, cbid, ctx)

\* OnDriverApiExit: the thread's buffer after it.
BufferAfterExit(hook, buf) ==
  IF ~hook.option_.required_callback_api_events THEN buf
  ELSE FillLastEvent(buf)

\* Whether HandleCallback reaches callback_annotations_and_events_->Add.
ReachesAdd(domain, context, site, device_id) ==
  /\ api_tracing_enabled_
  /\ cupti_driver_api_hook_ # NullHook
  /\ domain = "DRIVER_API"
  /\ context # NullContext
  /\ device_id >= 0           \* GetDeviceId succeeded
  /\ device_id < NumGpus
  /\ site = "EXIT"

\* HandleCallback up to and including the guard of Add.  Every early return
\* (and the ENTER site, which only stores a timestamp in cbdata) leaves the
\* tracer unchanged; at the EXIT site the thread either passes Add's check or
\* counts a dropped event.
HandleCallback(t, domain, cbid, context, site, device_id, annotation) ==
  /\ subscribed
  /\ tl[t] # Null
  /\ tpc[t] = "idle"
  /\ nextCorrelationId <= MaxCalls
  /\ IF ~ReachesAdd(domain, context, site, device_id)
     THEN UNCHANGED <<tpc, pending, buffers, nextCorrelationId, ctxUsed>>
     ELSE /\ nextCorrelationId' = nextCorrelationId + 1
          /\ ctxUsed' = IF IsCtxDestroy(cbid) THEN ctxUsed \ {context}
                        ELSE ctxUsed \cup {context}
          /\ IF AddAdmits
             THEN /\ tpc' = [tpc EXCEPT ![t] = "adding"]
                  /\ pending' = [pending EXCEPT ![t] =
                        [cbid |-> cbid, context |-> context,
                         correlation_id |-> nextCorrelationId,
                         annotation |-> annotation]]
                  /\ UNCHANGED buffers
             ELSE /\ buffers' = [buffers EXCEPT ![tl[t]] = DropEvent(@)]
                  /\ UNCHANGED <<tpc, pending>>
  /\ UNCHANGED <<tl, nextBuf, active_set_, deactived_list_, handedOut,
                 returned>>
  /\ UNCHANGED tracerVars
  /\ UNCHANGED activityVars
  /\ UNCHANGED hloVars
  /\ UNCHANGED <<lowerVars, datasetVars>>

\* The rest of Add (the increment and the Emplace), then OnDriverApiExit.
HandleCallback_Append(t) ==
  /\ tpc[t] = "adding"
  /\ s_callback_api_event_count' = s_callback_api_event_count + 1
  /\ buffers' = [buffers EXCEPT ![tl[t]] =
        BufferAfterExit(cupti_driver_api_hook_,
                        Emplace(@, pending[t].correlation_id,
                                pending[t].annotation))]
  /\ cupti_driver_api_hook_' =
       [cupti_driver_api_hook_ EXCEPT !.contexts_ =
          ContextsAfterExit(cupti_driver_api_hook_, pending[t].cbid,
                            pending[t].context)]
  /\ tpc' = [tpc EXCEPT ![t] = "idle"]
  /\ pending' = [pending EXCEPT ![t] = NoPending]
  /\ UNCHANGED <<tl, nextCorrelationId, ctxUsed, nextBuf, active_set_,
                 deactived_list_, handedOut, returned>>
  /\ UNCHANGED <<pc, session, option_, collector_, api_tracing_enabled_,
                 activity_tracing_enabled_, s_max_callback_api_events,
                 s_max_annotation_strings, collected_annotation_and_events_,
                 merged_annotation_map_, dropped_callback_event_count_,
                 subscribed, log, cuptiCalls, synced, activityWasOn, polled>>
  /\ UNCHANGED activityVars
  /\ UNCHANGED hloVars
  /\ UNCHANGED <<lowerVars, datasetVars>>

(* --------------------------- activity buffers ------------------------- *)
CachedBuffers == {activity_buffers_[i].buffer : i \in 1..Len(activity_buffers_)}

\* Memory a new allocation can return: not owned by the pool, by CUPTI or by
\* activity_buffers_.
FreeMemory ==
  (1..MaxActivityBuffers) \ (buffer_pool_ \cup cuptiHeld \cup CachedBuffers)

\* BufferPool::GetOrCreateBuffer: a pooled buffer if there is one, else a new
\* allocation, which may fail (nullptr).
GetOrCreateBuffer == IF buffer_pool_ # {} THEN buffer_pool_
                     ELSE FreeMemory \cup {Null}

\* BufferPool::ReclaimBuffer.
ReclaimBuffer(buffer) == buffer_pool_ \cup {buffer}

RequestActivityBuffer(buffer) ==
  /\ cuptiRegistered
  /\ buffer \in GetOrCreateBuffer
  /\ IF buffer = Null
     THEN UNCHANGED <<buffer_pool_, cuptiHeld>>
     ELSE /\ buffer_pool_' = buffer_pool_ \ {buffer}
          /\ cuptiHeld' = cuptiHeld \cup {buffer}
  /\ UNCHANGED <<cuptiRegistered, activity_buffers_,
                 estimated_num_activity_events_, cachedTotal, converted,
                 lastProcessed>>
  /\ UNCHANGED tracerVars
  /\ UNCHANGED threadVars
  /\ UNCHANGED collectionVars
  /\ UNCHANGED hloVars
  /\ UNCHANGED <<lowerVars, datasetVars>>

\* size_t estimated_event_count (cupti_tracer.cc:1874-1875).
EstimatedEventCount(size) ==
  (size + kMaxCuptiActivityEventSize - 1) \div kMaxCuptiActivityEventSize

\* The comparison of line 1876-1877.  With collector_ == nullptr the read of
\* collector_->options_ is undefined: either outcome.
TooManyActivityEvents(undefined) ==
  IF collector_ = NullCollector THEN undefined
  ELSE estimated_num_activity_events_ >= collector_.max_activity_api_events

\* Whether ProcessActivityBuffer caches the buffer in activity_buffers_.
CachesBuffer(size, disabled, undefined) ==
  /\ size # 0
  /\ activity_tracing_enabled_
  /\ ~disabled
  /\ ~TooManyActivityEvents(undefined)

\* ProcessActivityBuffer without line 1891: the cleanup reclaims every buffer.
PoolAlwaysReclaims(buffer, size, disabled, undefined) == ReclaimBuffer(buffer)

\* The absl::Cleanup of ProcessActivityBuffer: the buffer goes back to the
\* pool unless buffer was set to nullptr after caching it.
PoolAfterProcess(buffer, size, disabled, undefined) ==
  IF CachesBuffer(size, disabled, undefined) THEN buffer_pool_
  ELSE ReclaimBuffer(buffer)

ActivityBuffersAfterProcess(buffer, size, disabled, undefined) ==
  IF CachesBuffer(size, disabled, undefined)
  THEN Append(activity_buffers_,
              [buffer |-> buffer, size |-> size, n |-> cachedTotal + 1])
  ELSE activity_buffers_

ProcessActivityBuffer(buffer, size, disabled, undefined) ==
  /\ buffer \in cuptiHeld
  /\ undefined => (collector_ = NullCollector /\ activity_tracing_enabled_)
  /\ cuptiHeld' = cuptiHeld \ {buffer}
  /\ buffer_pool_' = PoolAfterProcess(buffer, size, disabled, undefined)
  /\ activity_buffers_' =
       ActivityBuffersAfterProcess(buffer, size, disabled, undefined)
  /\ estimated_num_activity_events_' =
       IF CachesBuffer(size, disabled, undefined)
       THEN estimated_num_activity_events_ + EstimatedEventCount(size)
       ELSE estimated_num_activity_events_
  /\ cachedTotal' = IF CachesBuffer(size, disabled, undefined)
                    THEN cachedTotal + 1 ELSE cachedTotal
  /\ lastProcessed' =
       [buffer |-> buffer, size |-> size, disabled |-> disabled,
        cached |-> CachesBuffer(size, disabled, undefined),
        reclaimed |-> ~CachesBuffer(size, disabled, undefined)]
  /\ UNCHANGED <<cuptiRegistered, converted>>
  /\ UNCHANGED tracerVars
  /\ UNCHANGED threadVars
  /\ UNCHANGED collectionVars
  /\ UNCHANGED hloVars
  /\ UNCHANGED <<lowerVars, datasetVars>>

(* ------------------------------ the poller ---------------------------- *)
\* A session is live from the successful Subscribe of Enable() to the return
\* of Disable() (pc = "idle" again).
SessionLive == pc # "idle" /\ "Subscribe" \in cuptiCalls

PollIsAvailable ==
  /\ ~polled.done
  /\ polled' = [live |-> SessionLive, available |-> IsAvailable, done |-> TRUE]
  /\ UNCHANGED <<pc, session, option_, collector_, api_tracing_enabled_,
                 activity_tracing_enabled_, cupti_driver_api_hook_,
                 s_callback_api_event_count, s_max_callback_api_events,
                 s_max_annotation_strings, collected_annotation_and_events_,
                 merged_annotation_map_, dropped_callback_event_count_,
                 subscribed, log, cuptiCalls, synced, activityWasOn>>
  /\ UNCHANGED threadVars
  /\ UNCHANGED collectionVars
  /\ UNCHANGED activityVars
  /\ UNCHANGED hloVars
  /\ UNCHANGED <<lowerVars, datasetVars>>

(* ------------------------ the MHLO to HLO exporter --------------------- *)
\* The symbols of a module: func.func operations (blocks = 0: a declaration)
\* and other symbols.  lowers is whether LowerBasicBlockAsFunction succeeds
\* on the function's own operations; callee is the function its func.call
\* names ("": no call).
SymbolNames == {"main", "f", "g"}
FuncOps ==
  [name : SymbolNames, is_func : {TRUE}, blocks : 0..2, lowers : BOOLEAN,
   callee : {"", "f"}]
OtherSymbols ==
  [name : SymbolNames, is_func : {FALSE}, blocks : {0}, lowers : {FALSE},
   callee : {""}]

\* module_.lookupSymbol<mlir::func::FuncOp>(name): the function, if the symbol
\* is one.
HasFunc(ops, name) ==
  \E i \in 1..Len(ops) : ops[i].name = name /\ ops[i].is_func
LookupFunc(ops, name) ==
  ops[CHOOSE i \in 1..Len(ops) : ops[i].name = name /\ ops[i].is_func]

\* Modules that pass the MLIR verifier: symbol names are unique and a call
\* names a function of the module; here a called function makes no call.
WellFormed(ops) ==
  /\ \A i, j \in 1..Len(ops) : i # j => ops[i].name # ops[j].name
  /\ \A i \in 1..Len(ops) :
       ops[i].callee # "" =>
         /\ ops[i].callee # ops[i].name
         /\ HasFunc(ops, ops[i].callee)
         /\ LookupFunc(ops, ops[i].callee).callee = ""
         /\ ops[i].blocks = 1
ModuleOps ==
  {ops \in UNION {[1..n -> FuncOps \cup OtherSymbols] : n \in 0..MaxFuncs} :
     WellFormed(ops)}
Modules ==
  {m \in [ops : ModuleOps, hasStablehloOps : BOOLEAN, legalize_ok : BOOLEAN,
          prepare_ok : BOOLEAN] : ~m.hasStablehloOps => m.legalize_ok}

\* The message of line 719 (the source puts main in backquotes).
kNoMainError == "conversion requires module with main function"

\* ConvertToHloModule::RunOnFunction(f) with lowered already lowered: the
\* result and the functions lowered afterwards.  A func.call lowers its callee
\* first (LowerFunctionCall).
RECURSIVE RunOnFunction(_, _, _)
RunOnFunction(ops, f, lowered) ==
  IF f.name \in lowered THEN [ok |-> TRUE, lowered |-> lowered, error |-> ""]
  ELSE IF f.blocks # 1
  THEN [ok |-> FALSE, lowered |-> lowered,
        error |-> "only single block Function supported"]
  ELSE LET called == IF f.callee = ""
                     THEN [ok |-> TRUE, lowered |-> lowered, error |-> ""]
                     ELSE RunOnFunction(ops, LookupFunc(ops, f.callee), lowered)
       IN IF ~called.ok THEN called
          ELSE IF ~f.lowers
          THEN [ok |-> FALSE, lowered |-> called.lowered,
                error |-> "LowerBasicBlockAsFunction failed"]
          ELSE [ok |-> TRUE, lowered |-> called.lowered \cup {f.name},
                error |-> ""]

\* Run without the check of lines 717-719.
RunSkipsMainCheck(ops) == TRUE

\* Run's first statements: whether the lookup of main lets Run go on.
RunFindsMain(ops) == HasFunc(ops, "main")

\* ConvertMlirHloToHlo up to PrepareForExport: the StableHLO fallback.
ConvertMlirHloToHlo(module) ==
  /\ hpc = "idle"
  /\ module_' = module
  /\ IF module.hasStablehloOps /\ ~module.legalize_ok
     THEN /\ hpc' = "done"
          /\ status' = "Unable to convert StableHLO to MHLO"
     ELSE /\ hpc' = "PrepareForExport"
          /\ UNCHANGED status
  /\ UNCHANGED <<run_result, run_index, lowered_computation_, hlo_module,
                 check_failed>>
  /\ UNCHANGED <<tracerVars, threadVars, collectionVars, activityVars>>
  /\ UNCHANGED <<lowerVars, datasetVars>>

PrepareForExport ==
  /\ hpc = "PrepareForExport"
  /\ IF module_.prepare_ok
     THEN hpc' = "Run" /\ UNCHANGED status
     ELSE hpc' = "done" /\ status' = "Unable to prepare for XLA export"
  /\ UNCHANGED <<module_, run_result, run_index, lowered_computation_,
                 hlo_module, check_failed>>
  /\ UNCHANGED <<tracerVars, threadVars, collectionVars, activityVars>>
  /\ UNCHANGED <<lowerVars, datasetVars>>

\* Run, lines 716-719: without a function main it emits the error and
\* returns failure, and ConvertMlirHloToHlo returns the consumed diagnostic.
Run_LookupMain ==
  /\ hpc = "Run"
  /\ IF RunFindsMain(module_.ops)
     THEN /\ hpc' = "Run loop"
          /\ run_index' = 1
          /\ UNCHANGED <<run_result, status>>
     ELSE /\ hpc' = "done"
          /\ run_result' = "failure"
          /\ status' = kNoMainError
          /\ UNCHANGED run_index
  /\ UNCHANGED <<module_, lowered_computation_, hlo_module, check_failed>>
  /\ UNCHANGED <<tracerVars, threadVars, collectionVars, activityVars>>
  /\ UNCHANGED <<lowerVars, datasetVars>>

\* Run, lines 721-725: one round of the loop over the module's functions, or
\* its end.
Run_ForEachFunction ==
  /\ hpc = "Run loop"
  /\ IF run_index > Len(module_.ops)
     THEN /\ hpc' = "ConsumeMainProto"
          /\ run_result' = "success"
          /\ UNCHANGED <<run_index, lowered_computation_, status>>
     ELSE LET func == module_.ops[run_index]
              r == RunOnFunction(module_.ops, func, lowered_computation_)
          IN IF ~func.is_func \/ func.blocks = 0
             THEN /\ run_index' = run_index + 1
                  /\ UNCHANGED <<hpc, run_result, lowered_computation_,
                                 status>>
             ELSE /\ lowered_computation_' = r.lowered
                  /\ IF r.ok
                     THEN /\ run_index' = run_index + 1
                          /\ UNCHANGED <<hpc, run_result, status>>
                     ELSE /\ hpc' = "done"
                          /\ run_result' = "failure"
                          /\ status' = r.error
                          /\ UNCHANGED run_index
  /\ UNCHANGED <<module_, hlo_module, check_failed>>
  /\ UNCHANGED <<tracerVars, threadVars, collectionVars, activityVars>>
  /\ UNCHANGED <<lowerVars, datasetVars>>

\* ConsumeMainProto and the rest of ConvertMlirHloToHlo: CHECK(main), then
\* lowered_computation_[main].proto() (a default proto if main was skipped).
ConsumeMainProto ==
  /\ hpc = "ConsumeMainProto"
  /\ hpc' = "done"
  /\ IF HasFunc(module_.ops, "main")
     THEN /\ hlo_module' = IF "main" \in lowered_computation_
                           THEN "main" ELSE "default"
          /\ status' = "ok"
          /\ UNCHANGED check_failed
     ELSE /\ check_failed' = TRUE
          /\ UNCHANGED <<hlo_module, status>>
  /\ UNCHANGED <<module_, run_result, run_index, lowered_computation_>>
  /\ UNCHANGED <<tracerVars, threadVars, collectionVars, activityVars>>
  /\ UNCHANGED <<lowerVars, datasetVars>>

(* ----------------------- lowering of a return op ---------------------- *)
\* The mlir::Values a return op may name and the result shardings of a
\* function (mhlo.sharding attributes).
Values == 1..MaxValues
ResultShardings == {NoSharding, [type |-> "MAXIMAL"]}

\* The XlaOps of the builder, as terms: the lowering of a value, xla::Tuple,
\* xla::GetTupleElement and the op ReshapeWithCorrectRepresentationAndSharding
\* builds; sharding is the builder's sharding when the op was created.
LoweredValue(val) == [kind |-> "value", value |-> val]
Tuple(elements, sharding) ==
  [kind |-> "tuple", elements |-> elements, sharding |-> sharding]
GetTupleElement(tuple, index, sharding) ==
  [kind |-> "get-tuple-element", tuple |-> tuple, index |-> index,
   sharding |-> sharding]

\* The value_lowering map of a block in which the values of defined have been
\* lowered.
ValueLoweringMap(defined) ==
  [val \in Values |-> IF val \in defined THEN LoweredValue(val) ELSE InvalidOp]

\* GetXlaOp: failure if val is not in val_map.
GetXlaOp(val, val_map) ==
  IF val_map[val] = InvalidOp THEN [ok |-> FALSE, result |-> InvalidOp]
  ELSE [ok |-> TRUE, result |-> val_map[val]]

SomeOptionalShardingsAreSet(shardings) ==
  \E i \in 1..Len(shardings) : shardings[i] # NoSharding

\* CreateTupleSharding: a TUPLE sharding if at least one sharding is present,
\* with REPLICATED for the missing ones.
CreateTupleSharding(tuple_shardings) ==
  IF tuple_shardings = <<>> \/ ~SomeOptionalShardingsAreSet(tuple_shardings)
  THEN NoSharding
  ELSE [type |-> "TUPLE",
        tuple_shardings |->
          [i \in 1..Len(tuple_shardings) |->
             IF tuple_shardings[i] # NoSharding THEN tuple_shardings[i]
             ELSE [type |-> "REPLICATED"]]]

\* ReshapeWithCorrectRepresentationAndSharding as Lower uses it: an error, or
\* an op for the value in its representation under the sharding, which is the
\* original op or a new one.
ReshapeOutcomes == {"same", "reshaped", "error"}
ReshapeWithCorrectRepresentationAndSharding(original, sharding, outcome) ==
  CASE outcome = "error" -> [ok |-> FALSE, value |-> InvalidOp]
    [] outcome = "same" -> [ok |-> TRUE, value |-> original]
    [] outcome = "reshaped" ->
         [ok |-> TRUE,
          value |-> [kind |-> "reshape", operand |-> original,
                     sharding |-> sharding]]

\* The return ops Lower is called with: the operands, the function's result
\* shardings (none, or one optional sharding for each result) and the values
\* lowered before the return op.  Lower reaches the return op with the
\* builder's sharding cleared.
ReturnOps ==
  {i \in [operands : UNION {[1..n -> Values] : n \in 0..MaxReturns},
          is_entry_function : BOOLEAN,
          ret_shardings :
            UNION {[1..n -> ResultShardings] : n \in 0..MaxReturns},
          value_map : {ValueLoweringMap(d) : d \in SUBSET Values},
          reshape : ReshapeOutcomes] :
     /\ Len(i.ret_shardings) \in {0, Len(i.operands)}
     /\ (i.reshape # "same") =>
          (i.is_entry_function /\ SomeOptionalShardingsAreSet(i.ret_shardings))}

\* Lower with every return op wrapped in a tuple.
ReturnsTupleAlways(num_return_values, is_entry_function) == TRUE

\* The condition of line 3185.
ReturnsTuple(num_return_values, is_entry_function) ==
  (return_tuple_ /\ is_entry_function) \/ num_return_values # 1

\* returns[index] of lines 3186-3207 for one operand.
ReturnOperand(op, index) ==
  LET operand == GetXlaOp(op.operands[index], op.value_map)
  IN IF ~operand.ok THEN [ok |-> FALSE, value |-> InvalidOp]
     ELSE IF ~op.is_entry_function
             \/ CreateTupleSharding(op.ret_shardings) = NoSharding
     THEN [ok |-> TRUE, value |-> operand.result]
     ELSE ReshapeWithCorrectRepresentationAndSharding(
            operand.result, op.ret_shardings[index], op.reshape)

\* ConvertToHloModule::Lower for a return op: the LogicalResult and
\* *return_value, which Lower resets first (line 3020).
LowerReturn(op) ==
  LET num_return_values == Len(op.operands)
      ret_tuple_sharding == CreateTupleSharding(op.ret_shardings)
      returns == [index \in 1..num_return_values |-> ReturnOperand(op, index)]
  IN IF ReturnsTuple(num_return_values, op.is_entry_function)
     THEN IF \E index \in 1..num_return_values : ~returns[index].ok
          THEN [ok |-> FALSE, return_value |-> InvalidOp]
          ELSE [ok |-> TRUE,
                return_value |->
                  Tuple([index \in 1..num_return_values |->
                           returns[index].value],
                        ret_tuple_sharding)]
     ELSE LET operand == GetXlaOp(op.operands[1], op.value_map)
          IN IF ~operand.ok THEN [ok |-> FALSE, return_value |-> InvalidOp]
             ELSE IF ret_tuple_sharding # NoSharding
             THEN [ok |-> TRUE,
                   return_value |->
                     GetTupleElement(Tuple(<<operand.result>>, NoSharding), 0,
                                     op.ret_shardings[1])]
             ELSE [ok |-> TRUE, return_value |-> operand.result]

\* The constructor of ConvertToHloModule.
ConvertToHloModule(use_tuple_args, return_tuple) ==
  /\ converter = "none"
  /\ converter' = "constructed"
  /\ use_tuple_args_' = use_tuple_args
  /\ return_tuple_' = return_tuple
  /\ UNCHANGED <<inst, return_value, lower_result>>
  /\ UNCHANGED <<tracerVars, threadVars, collectionVars, activityVars,
                 hloVars, datasetVars>>

\* LowerBasicBlockAsFunction starts on the next block with a new, invalid
\* return_value (line 3558).
LowerBasicBlockAsFunction_Begin ==
  /\ converter = "constructed"
  /\ lower_result # "none"
  /\ inst' = NoInst
  /\ return_value' = InvalidOp
  /\ lower_result' = "none"
  /\ UNCHANGED <<converter, use_tuple_args_, return_tuple_>>
  /\ UNCHANGED <<tracerVars, threadVars, collectionVars, activityVars,
                 hloVars, datasetVars>>

\* Lower called with the return op of the block, its last operation.
Lower(op) ==
  /\ converter = "constructed"
  /\ lower_result = "none"
  /\ inst' = op
  /\ return_value' = LowerReturn(op).return_value
  /\ lower_result' = IF LowerReturn(op).ok THEN "success" ELSE "failure"
  /\ UNCHANGED <<converter, use_tuple_args_, return_tuple_>>
  /\ UNCHANGED <<tracerVars, threadVars, collectionVars, activityVars,
                 hloVars, datasetVars>>

(* ---------------------- IndexFlatMapDatasetOp ------------------------- *)

\* The outcomes of CapturedFunction::Create.
CreateStatuses == {"OK", "INVALID_ARGUMENT"}

\* MakeDataset without the OP_REQUIRES of lines 333-337.
SkipsRandomAccessCheck(input) == TRUE

\* The condition of the OP_REQUIRES of lines 333-337.
RequiresRandomAccess(input) == input.random_indexing_compatible = "OK"

\* OP_REQUIRES / OP_REQUIRES_OK record the first failing status in ctx and
\* return from MakeDataset: the status ctx ends with.
MakeDatasetStatus(input, map_func_status, index_map_func_status) ==
  IF ~RequiresRandomAccess(input)
  THEN [code |-> "FAILED_PRECONDITION",
        got |-> input.random_indexing_compatible]
  ELSE IF map_func_status # "OK" THEN [code |-> map_func_status]
  ELSE IF index_map_func_status # "OK" THEN [code |-> index_map_func_status]
  ELSE [code |-> "OK"]

\* The CapturedFunctions MakeDataset creates before it returns.
CapturedFunctionsCreated(input, map_func_status, index_map_func_status) ==
  IF ~RequiresRandomAccess(input) \/ map_func_status # "OK" THEN 0
  ELSE IF index_map_func_status # "OK" THEN 1
  ELSE 2

\* IndexFlatMapDatasetOp::MakeDataset.  A CapturedFunction is owned by a
\* unique_ptr: one created before a failing step dies when MakeDataset
\* returns.  The Dataset constructor takes a reference to its input.
MakeDataset(input, map_func_status, index_map_func_status) ==
  /\ Len(datasets) < MaxDatasets
  /\ LET s == MakeDatasetStatus(input, map_func_status, index_map_func_status)
         created == CapturedFunctionsCreated(input, map_func_status,
                                             index_map_func_status)
     IN IF s.code = "OK"
        THEN /\ datasets' = Append(datasets,
                                   [input_ |-> input.id, alive |-> TRUE])
             /\ refs' = [refs EXCEPT ![input.id] = @ + 1]
             /\ captured_functions' = captured_functions + created
             /\ op_ctx' = [called |-> TRUE, input |-> input.id, status |-> s,
                        output |-> Len(datasets) + 1, created |-> created]
        ELSE /\ op_ctx' = [called |-> TRUE, input |-> input.id, status |-> s,
                        output |-> 0, created |-> created]
             /\ UNCHANGED <<datasets, refs, captured_functions>>
  /\ UNCHANGED <<tracerVars, threadVars, collectionVars, activityVars,
                 hloVars, lowerVars>>

\* ~Dataset: the last reference to an IndexFlatMap dataset goes away; it
\* drops the reference to its input and its two CapturedFunctions.
DatasetDestroy(d) ==
  /\ d \in 1..Len(datasets)
  /\ datasets[d].alive
  /\ datasets' = [datasets EXCEPT ![d].alive = FALSE]
  /\ refs' = [refs EXCEPT ![datasets[d].input_] = @ - 1]
  /\ captured_functions' = captured_functions - 2
  /\ UNCHANGED op_ctx
  /\ UNCHANGED <<tracerVars, threadVars, collectionVars, activityVars,
                 hloVars, lowerVars>>

(* --------------------------- specification ---------------------------- *)
vars == <<tracerVars, threadVars, collectionVars, activityVars, hloVars,
          lowerVars, datasetVars>>

Domains == {"DRIVER_API", "NVTX", "RUNTIME_API"}
Cbids == {"cuLaunchKernel", "cuCtxDestroy"}
Sites == {"ENTER", "EXIT"}
DeviceIds == (-1)..NumGpus   \* -1: GetDeviceId failed
Annotations == {"", "a"}
ActivitySizes == {0, kMaxCuptiActivityEventSize}

\* The outcomes of the CUPTI calls of one step: success, or the step's
\* RETURN_IF_CUPTI_ERROR returns.
ApiOutcomes == {"ok", "subscribe_error", "enable_error", "error"}
ActivityOutcomes == {"ok", "register_error", "enable_error", "disable_error",
                     "flush_error"}

\* The thread that runs Enable() and Disable(), for the options offered to
\* Enable and the outcomes CUPTI's calls may have.
Control(Options, MaxCallbacks, Api, Act) ==
  \/ \E option \in Options, max_cb \in MaxCallbacks : Enable(option, max_cb)
  \/ EnableApiTracing_Prepare
  \/ \E result \in {"ok", "subscribe_error", "enable_error"} \cap Api :
       EnableApiTracing_Subscribe(result)
  \/ \E result \in {"ok", "register_error", "enable_error"} \cap Act :
       EnableActivityTracing(result)
  \/ \E result \in {"ok", "error"} \cap Api : DisableApiTracing(result)
  \/ \E result \in {"ok", "disable_error", "flush_error"} \cap Act :
       DisableActivityTracing(result)
  \/ SyncAndFlush
  \/ GatherAllCallbackAnnotationsAndEvents
  \/ FinalizeApiCallbackBuffers
  \/ FinalizeActivityBuffers
  \/ FlushAndReset

\* The callbacks CUPTI delivers: every callback that reaches Add, and one
\* callback for each early return of HandleCallback.
CallbackInputs ==
  [domain : {"DRIVER_API"}, cbid : Cbids, context : Contexts, site : {"EXIT"},
   device_id : {0}, annotation : Annotations]
  \cup
  {[domain |-> "NVTX", cbid |-> "cuLaunchKernel", context |-> 1,
    site |-> "EXIT", device_id |-> 0, annotation |-> ""],
   [domain |-> "RUNTIME_API", cbid |-> "cuLaunchKernel", context |-> 1,
    site |-> "EXIT", device_id |-> 0, annotation |-> ""],
   [domain |-> "DRIVER_API", cbid |-> "cuLaunchKernel",
    context |-> NullContext, site |-> "EXIT", device_id |-> 0,
    annotation |-> ""],
   [domain |-> "DRIVER_API", cbid |-> "cuLaunchKernel", context |-> 1,
    site |-> "EXIT", device_id |-> -1, annotation |-> ""],
   [domain |-> "DRIVER_API", cbid |-> "cuLaunchKernel", context |-> 1,
    site |-> "EXIT", device_id |-> NumGpus, annotation |-> ""],
   [domain |-> "DRIVER_API", cbid |-> "cuLaunchKernel", context |-> 1,
    site |-> "ENTER", device_id |-> 0, annotation |-> ""]}

\* The callbacks among them that are kernel launches.
LaunchInputs == {cb \in CallbackInputs : cb.cbid = "cuLaunchKernel"}

\* The application threads and the driver API callbacks they receive.
Callbacks(Inputs) ==
  \/ \E t \in Threads : ThreadLocalInit(t)
  \/ \E t \in Threads : ThreadExit(t)
  \/ \E t \in Threads, cb \in Inputs :
       HandleCallback(t, cb.domain, cb.cbid, cb.context, cb.site,
                      cb.device_id, cb.annotation)
  \/ \E t \in Threads : HandleCallback_Append(t)

\* CUPTI's activity callbacks.
Activity ==
  \/ \E buffer \in 0..MaxActivityBuffers : RequestActivityBuffer(buffer)
  \/ \E buffer \in 1..MaxActivityBuffers, size \in ActivitySizes,
        disabled \in BOOLEAN, undefined \in BOOLEAN :
       ProcessActivityBuffer(buffer, size, disabled, undefined)

Next ==
  \/ Control(OptionChoices, MaxCallbackChoices, ApiOutcomes, ActivityOutcomes)
  \/ Callbacks(CallbackInputs)
  \/ Activity
  \/ PollIsAvailable

Spec == Init /\ [][Next]_vars

\* The tracer with one group of concurrent callers at a time.  The groups
\* write disjoint variables (threadVars, collectionVars and the hook's
\* contexts; activityVars; polled), none reads what another writes, and the
\* control thread is part of each.  Each specification offers Enable() the
\* option fields its group reads.
CallbackOptions == {o \in OptionChoices : o.activities_selected = <<>>}
ActivityOptions ==
  {o \in OptionChoices :
     o.required_callback_api_events /\ ~o.sync_devices_before_stop}

NextAvailability ==
  \/ Control(OptionChoices, {0}, ApiOutcomes, ActivityOutcomes)
  \/ PollIsAvailable
SpecAvailability == Init /\ [][NextAvailability]_vars

NextCallbacks ==
  \/ Control(CallbackOptions, MaxCallbackChoices, ApiOutcomes, {"ok"})
  \/ Callbacks(CallbackInputs)
SpecCallbacks == Init /\ [][NextCallbacks]_vars

\* The per-thread buffers alone: the options and callbacks that decide which
\* contexts are tracked are left to SpecCallbacks.
BufferOptions ==
  {o \in CallbackOptions :
     o.required_callback_api_events /\ ~o.sync_devices_before_stop}
NextBuffers ==
  \/ Control(BufferOptions, MaxCallbackChoices, {"ok", "subscribe_error"},
             {"ok"})
  \/ Callbacks(LaunchInputs)
SpecBuffers == Init /\ [][NextBuffers]_vars

NextActivity ==
  \/ Control(ActivityOptions, {0}, ApiOutcomes, ActivityOutcomes)
  \/ Activity
SpecActivity == Init /\ [][NextActivity]_vars

\* The exporter, for every module offered to ConvertMlirHloToHlo.
NextHlo ==
  \/ \E module \in Modules : ConvertMlirHloToHlo(module)
  \/ PrepareForExport
  \/ Run_LookupMain
  \/ Run_ForEachFunction
  \/ ConsumeMainProto
SpecHlo == Init /\ [][NextHlo]_vars

\* The lowering of return ops by one ConvertToHloModule.
NextLower ==
  \/ \E use_tuple_args, return_tuple \in BOOLEAN :
       ConvertToHloModule(use_tuple_args, return_tuple)
  \/ LowerBasicBlockAsFunction_Begin
  \/ \E op \in ReturnOps : Lower(op)

SpecLower == Init /\ [][NextLower]_vars

\* The IndexFlatMapDataset kernel and the datasets it makes.
NextDataset ==
  \/ \E input \in InputDatasets, map_func_status \in CreateStatuses,
        index_map_func_status \in CreateStatuses :
       MakeDataset(input, map_func_status, index_map_func_status)
  \/ \E d \in 1..MaxDatasets : DatasetDestroy(d)

SpecDataset == Init /\ [][NextDataset]_vars

(* ------------------------------- claims ------------------------------- *)
\* C1: IsAvailable() returns false from the moment Enable() has subscribed
\* the API callbacks until the matching Disable() has returned: a poll made
\* while the session is live never finds the tracer available.
C1_UnavailableWhileLive == (polled.done /\ polled.live) => ~polled.available

ActivityApiCalls == {"ActivityRegisterCallbacks", "ActivityEnable",
                     "ActivityDisable", "ActivityFlushAll"}

\* C8: if activities_selected is empty, the tracer makes no Activity API
\* call over the whole session (no ActivityRegisterCallbacks, ActivityEnable,
\* ActivityDisable or ActivityFlushAll).
C8_NoActivityApiCall ==
  (/\ cupti_driver_api_hook_ # NullHook
   /\ cupti_driver_api_hook_.option_.activities_selected = <<>>)
  => cuptiCalls \cap ActivityApiCalls = {}

AfterTracingOff ==
  pc \in {"SyncAndFlush", "Gather", "FinalizeApiCallbackBuffers",
          "FinalizeActivityBuffers", "Flush"}
ProtocolRank(op) ==
  CASE op = "SetAnnotationMap" -> 1
    [] op = "AddEvent" -> 2
    [] op = "ConvertActivityBuffer" -> 3
    [] op = "Flush" -> 4
CallsOf(op) == {i \in 1..Len(log) : log[i].op = op}

\* C2: Disable() first switches API tracing and activity tracing off
\* (activity tracing with a forced flush of CUPTI's buffers); then it installs
\* the merged annotation map on the collector, then adds every buffered
\* callback event, then converts every cached activity buffer, and only then
\* calls Flush(), exactly once; when it has returned collector_ is null,
\* option_ is empty and the driver API hook is destroyed.
C2_FinalizeFlushProtocol ==
  /\ AfterTracingOff =>
       /\ ~api_tracing_enabled_
       /\ ~activity_tracing_enabled_
       /\ activityWasOn => "ActivityFlushAll" \in cuptiCalls
  /\ \A i, j \in 1..Len(log) :
       i < j => ProtocolRank(log[i].op) <= ProtocolRank(log[j].op)
  /\ Cardinality(CallsOf("Flush")) <= 1
  /\ pc = "Flush" => activity_buffers_ = <<>>
  /\ (pc = "idle" /\ session > 0) =>
       /\ Cardinality(CallsOf("Flush")) = 1
       /\ Cardinality(CallsOf("SetAnnotationMap")) = 1
       /\ collector_ = NullCollector
       /\ option_ = NullOption
       /\ cupti_driver_api_hook_ = NullHook

\* C3: a cached activity buffer is converted only by Disable(), every cached
\* buffer is converted exactly once and in the order of caching (FIFO), and
\* activity_buffers_ is empty when Disable() has returned.
C3_SavedBuffersHandled ==
  /\ converted = [i \in 1..Len(converted) |-> i]
  /\ Len(converted) + Len(activity_buffers_) = cachedTotal
  /\ pc = "idle" => activity_buffers_ = <<>>

BufferedEvents == SumSeq([b \in 1..MaxBuffers |-> Len(buffers[b].events)])

\* C5: when max_callback_api_events is not 0, the callback events appended to
\* all per-thread buffers during one session never exceed it, whatever the
\* interleaving of the threads' Add calls.
C5_CallbackEventCap ==
  s_max_callback_api_events # 0 =>
    /\ BufferedEvents <= s_max_callback_api_events
    /\ s_callback_api_event_count <= s_max_callback_api_events

AfterSyncAndFlush ==
  pc \in {"Gather", "FinalizeApiCallbackBuffers", "FinalizeActivityBuffers",
          "Flush"}

\* C9: with sync_devices_before_stop, Disable() has called cuCtxSynchronize
\* once for every context used by a driver API call of the session and not
\* destroyed, whatever the other options; without it, for no context.
C9_UsedContextsSynchronized ==
  AfterSyncAndFlush =>
    \A c \in Contexts :
      synced[c] =
        IF cupti_driver_api_hook_.option_.sync_devices_before_stop
           /\ c \in ctxUsed
        THEN 1 ELSE 0

Created == 1..(nextBuf - 1)
InCollection == active_set_ \cup Range(deactived_list_)
HoldersOf(e) ==
  {<<b, i>> \in InCollection \X (1..MaxCalls) :
     i <= Len(buffers[b].events) /\ buffers[b].events[i].correlation_id = e}

RunReturned == hpc \in {"ConsumeMainProto", "done"} /\ status \notin
  {"Unable to convert StableHLO to MHLO", "Unable to prepare for XLA export"}

\* C10: for a module without a function named main, Run returns failure with
\* the error 'conversion requires module with main function' and lowers no
\* function; ConsumeMainProto is reached only after Run has succeeded, so its
\* CHECK never fails.
C10_RunRequiresMain ==
  /\ (RunReturned /\ ~HasFunc(module_.ops, "main")) =>
       /\ run_result = "failure"
       /\ status = kNoMainError
       /\ lowered_computation_ = {}
  /\ (hpc = "ConsumeMainProto" \/ hlo_module # "none") =>
       run_result = "success"
  /\ ~check_failed

\* C10's case: Run has failed on a module that has functions to lower, but
\* none named main.
C10_RunFailedWithoutMain ==
  /\ hpc = "done"
  /\ run_result = "failure"
  /\ \E i \in 1..Len(module_.ops) :
       /\ module_.ops[i].is_func
       /\ module_.ops[i].blocks = 1
       /\ module_.ops[i].lowers
  /\ \E i \in 1..Len(module_.ops) :
       module_.ops[i].name = "main" /\ ~module_.ops[i].is_func

Lowered ==
  [index \in 1..Len(inst.operands) |-> inst.value_map[inst.operands[index]]]
ResultShardingSet == CreateTupleSharding(inst.ret_shardings) # NoSharding
TupleExpected ==
  Len(inst.operands) # 1 \/ (return_tuple_ /\ inst.is_entry_function)

\* C11 as stated: when Lower has lowered a return op with n operands, the
\* root is a tuple of the n lowered operands if n # 1 or if return_tuple is
\* true and the function is the entry function; otherwise the single lowered
\* operand is returned directly, or, when a result sharding is set, as element
\* 0 of a one-element tuple that carries that sharding.
C11_ReturnValueShape ==
  lower_result = "success" =>
    IF TupleExpected
    THEN /\ return_value.kind = "tuple"
         /\ return_value.elements = Lowered
    ELSE IF ResultShardingSet
    THEN /\ return_value.kind = "get-tuple-element"
         /\ return_value.index = 0
         /\ return_value.tuple.kind = "tuple"
         /\ return_value.tuple.elements = Lowered
         /\ return_value.tuple.sharding = inst.ret_shardings[1]
    ELSE return_value = Lowered[1]

\* The lowered operand index as the entry function returns it when a result
\* sharding is set: what ReshapeWithCorrectRepresentationAndSharding made of
\* it for ret_shardings[index].
InRepresentation(op, index) ==
  \/ op = Lowered[index]
  \/ /\ op.kind = "reshape"
     /\ op.operand = Lowered[index]
     /\ op.sharding = inst.ret_shardings[index]

\* C11, amended: the root is a tuple of n elements if n # 1 or if
\* return_tuple is true and the function is the entry function, the element i
\* being the lowered operand i, or in the entry function with a result
\* sharding set that operand as reshaped for its sharding, and the tuple
\* carrying the tuple sharding of the results; otherwise the single lowered
\* operand is returned directly, or, when a result sharding is set, as the
\* get-tuple-element 0 of a one-element tuple, the get-tuple-element and not
\* the tuple carrying that sharding.  A failed lowering leaves no root.
C11_ReturnValueShapeSharded ==
  /\ lower_result = "success" =>
       IF TupleExpected
       THEN /\ return_value.kind = "tuple"
            /\ Len(return_value.elements) = Len(inst.operands)
            /\ return_value.sharding = CreateTupleSharding(inst.ret_shardings)
            /\ \A index \in 1..Len(inst.operands) :
                 IF inst.is_entry_function /\ ResultShardingSet
                 THEN InRepresentation(return_value.elements[index], index)
                 ELSE return_value.elements[index] = Lowered[index]
       ELSE IF ResultShardingSet
       THEN /\ return_value.kind = "get-tuple-element"
            /\ return_value.index = 0
            /\ return_value.sharding = inst.ret_shardings[1]
            /\ return_value.tuple = Tuple(Lowered, NoSharding)
       ELSE return_value = Lowered[1]
  /\ lower_result = "failure" => return_value = InvalidOp

\* C11's case: the entry function returns one value with return_tuple set and
\* a sharded result, which reaches the root reshaped and inside a tuple.
C11_EntrySingleResultTupled ==
  /\ lower_result = "success"
  /\ return_tuple_
  /\ inst.is_entry_function
  /\ Len(inst.operands) = 1
  /\ ResultShardingSet
  /\ return_value.kind = "tuple"
  /\ return_value.elements[1].kind = "reshape"

InputOf(id) == CHOOSE input \in InputDatasets : input.id = id
LiveDatasets == {d \in 1..Len(datasets) : datasets[d].alive}

\* C12: if input->RandomIndexingCompatible() is not OK, MakeDataset fails
\* with FailedPrecondition, sets no output and creates no captured function;
\* every dataset made has a random-access compatible input, and an input is
\* referenced only by its creator and by the live datasets made from it.
C12_RandomAccessRequired ==
  /\ (/\ op_ctx.called
      /\ InputOf(op_ctx.input).random_indexing_compatible # "OK") =>
       /\ op_ctx.status.code = "FAILED_PRECONDITION"
       /\ op_ctx.output = 0
       /\ op_ctx.created = 0
  /\ \A d \in 1..Len(datasets) :
       InputOf(datasets[d].input_).random_indexing_compatible = "OK"
  /\ \A id \in InputIds :
       refs[id] =
         1 + Cardinality({d \in LiveDatasets : datasets[d].input_ = id})
  /\ captured_functions = 2 * Cardinality(LiveDatasets)

\* C12's case: after a dataset was made from a compatible input, MakeDataset
\* has been called with an incompatible input and has failed.
C12_IncompatibleInputRejected ==
  /\ op_ctx.called
  /\ op_ctx.input = 3
  /\ op_ctx.status.code = "FAILED_PRECONDITION"
  /\ op_ctx.status.got = "FAILED_PRECONDITION"
  /\ LiveDatasets # {}
  /\ refs[3] = 1

\* What the disposition of a buffer depends on, as ProcessActivityBuffer finds
\* it on entry: the size and Disabled() are those of the call just made.
ShouldCache ==
  /\ lastProcessed'.size > 0
  /\ activity_tracing_enabled_
  /\ ~lastProcessed'.disabled
  /\ estimated_num_activity_events_ < MaxActivityApiEvents

\* C13: every buffer passed to ProcessActivityBuffer ends up in exactly one of
\* activity_buffers_ and the buffer pool; it is appended to activity_buffers_
\* if and only if size > 0, activity tracing is enabled, the CUPTI interface
\* is not disabled and the estimated event count is below
\* max_activity_api_events, and returned to the pool in every other case.
C13_BufferDisposition ==
  [][\A b \in 1..MaxActivityBuffers :
       (b \in cuptiHeld /\ b \notin cuptiHeld') =>
         /\ (b \in buffer_pool_') # (b \in CachedBuffers')
         /\ (b \in CachedBuffers') <=> ShouldCache
         /\ (b \in CachedBuffers') =>
              activity_buffers_' =
                Append(activity_buffers_,
                       activity_buffers_'[Len(activity_buffers_')])]_vars

====
